---- MODULE Spec2Model ----
(***************************************************************************)
(* A circular genome for simulating transposable elements (genome.py).    *)
(*                                                                         *)
(* The state of the program is the class-level state of the two genome     *)
(* classes (the dictionary of active TEs and the id counter of each) and   *)
(* the genome instances built so far.  ListGenome keeps its symbols in a   *)
(* Python list, LinkedListGenome in a circular doubly linked list with a   *)
(* dummy head.  A dictionary is a sequence of <<id, start, length>>        *)
(* entries in insertion order, which is the order Python iterates it in.   *)
(*                                                                         *)
(* Specifications: Spec (any instances of both classes), SpecEq (the two   *)
(* classes in step), SpecSingle (one instance), SpecAnySize (one instance  *)
(* of any integer size), SpecScenario (one instance of size 5) and         *)
(* SpecDLList (the linked list alone).                                     *)
(***************************************************************************)
EXTENDS Integers, Sequences, FiniteSets, TLC

\* ---------------------------------------------------------------- bounds
MaxN == 2          \* construction sizes are 0..MaxN
MaxLength == 2     \* TE lengths passed to insert_te are 0..MaxLength
MaxOffset == 2     \* copy_te offsets are -MaxOffset..MaxOffset
MaxIds == 3        \* ids issued per behaviour (per class under SpecEq)
MaxGenomes == 2    \* genome instances built per behaviour
MaxNegative == 1   \* negative construction sizes are -MaxNegative..-1
MaxSeq == 2        \* DLList(seq) is built from sequences of 0..MaxSeq values
MaxLinks == 4      \* links of a DLList besides its dummy head

Classes == {"ListGenome", "LinkedListGenome"}

VARIABLES
    transposable_elements,  \* the class attribute an instance of each class
                            \* reads as self.transposable_elements:
                            \* ListGenome.transposable_elements for ListGenome,
                            \* Genome.transposable_elements for LinkedListGenome
    tes_counter,            \* ListGenome.tes_counter, LinkedListGenome.tes_counter
    genomes,                \* the instances in construction order, each with
                            \* its class (cls) and its self.genome; under
                            \* SpecDLList the one object is a DLList
    history,                \* per instance: the size it was built with, the
                            \* total length inserted into it, the ids it returned
    last                    \* the last call, its arguments and its outcome

vars == <<transposable_elements, tes_counter, genomes, history, last>>

\* ------------------------------------------------------------ sequences
Min(a, b) == IF a < b THEN a ELSE b

\* n copies of value v: n * [v]  (an empty list when n <= 0)
Repeat(v, n) == [i \in 1..n |-> v]

\* Python slice assignment l[a:b] = new
SliceAssign(l, a, b, new) ==
    LET lo == Min(a, Len(l))
        hi == IF Min(b, Len(l)) < lo THEN lo ELSE Min(b, Len(l))
    IN  SubSeq(l, 1, lo) \o new \o SubSeq(l, hi + 1, Len(l))

\* -------------------------------------------------------- the dictionary
\* an entry of transposable_elements: {id: [pos, length]}
Entry(id, pos, length) == <<id, pos, length>>

Keys(tes) == {tes[i][1] : i \in 1..Len(tes)}

IndexOf(tes, te) == CHOOSE i \in 1..Len(tes) : tes[i][1] = te

\* transposable_elements[te]
Lookup(tes, te) == tes[IndexOf(tes, te)]

\* transposable_elements.pop(te)
Pop(tes, te) ==
    LET k == IndexOf(tes, te)
    IN  SubSeq(tes, 1, k - 1) \o SubSeq(tes, k + 1, Len(tes))

\* --------------------------------------------------------- the outcome
\* value is the id returned by insert_te / copy_te, 0 otherwise
Outcome(status, value) == [status |-> status, value |-> value]

\* ------------------------------------------------------------ ListGenome
\* ListGenome.__init__: self.genome = ['-'] * n
ListGenome_init(n) == Repeat("-", n)

\* ListGenome.disable_te; the result is the genome, the dictionary and the
\* status of the call (pop raises KeyError when te is no key)
ListGenome_disable_te(genome, tes, te) ==
    IF te \notin Keys(tes)
    THEN [genome |-> genome, tes |-> tes, status |-> "KeyError"]
    ELSE LET dropp_te == Lookup(tes, te)
             pos == dropp_te[2]
             l == dropp_te[3]
         IN  [genome |-> SliceAssign(genome, pos, pos + l, Repeat("x", l)),
              tes |-> Pop(tes, te),
              status |-> "ok"]

\* the loop of ListGenome.insert_te going on after it disabled a TE (no break)
RECURSIVE ListGenome_insert_loop_no_break(_, _, _, _, _)
ListGenome_insert_loop_no_break(genome, tes, i, pos, length) ==
    IF i > Len(tes)
    THEN [genome |-> genome, tes |-> tes, status |-> "ok"]
    ELSE LET id == tes[i][1]
             info == <<tes[i][2], tes[i][3]>>
             disabled == ListGenome_disable_te(genome, tes, id)
         IN  IF genome[pos + 1] = "A" /\ info[1] <= pos /\ pos <= info[1] + info[2]
             THEN ListGenome_insert_loop_no_break(disabled.genome, disabled.tes,
                                                  i, pos, length)
             ELSE IF info[1] > pos
                  THEN ListGenome_insert_loop_no_break(
                           genome,
                           [tes EXCEPT ![i] = Entry(id, info[1] + length, info[2])],
                           i + 1, pos, length)
                  ELSE ListGenome_insert_loop_no_break(genome, tes, i + 1, pos, length)

\* the loop of ListGenome.insert_te over transposable_elements.items(),
\* from the i-th entry on: the first colliding TE is disabled and ends the
\* loop, the entries visited before it with a start beyond pos are shifted
RECURSIVE ListGenome_insert_loop(_, _, _, _, _)
ListGenome_insert_loop(genome, tes, i, pos, length) ==
    IF i > Len(tes)
    THEN [genome |-> genome, tes |-> tes, status |-> "ok"]
    ELSE LET id == tes[i][1]
             info == <<tes[i][2], tes[i][3]>>
         IN  IF genome[pos + 1] = "A" /\ info[1] <= pos /\ pos <= info[1] + info[2]
             THEN ListGenome_disable_te(genome, tes, id)
             ELSE IF info[1] > pos
                  THEN ListGenome_insert_loop(
                           genome,
                           [tes EXCEPT ![i] = Entry(id, info[1] + length, info[2])],
                           i + 1, pos, length)
                  ELSE ListGenome_insert_loop(genome, tes, i + 1, pos, length)

\* ListGenome.insert_te with the id counter left as it is
ListGenome_insert_te_same_id(genome, tes, counter, pos, length) ==
    LET scanned == ListGenome_insert_loop(genome, tes, 1, pos, length)
    IN  [genome |-> SliceAssign(scanned.genome, pos, pos, Repeat("A", length)),
         tes |-> Append(scanned.tes, Entry(counter, pos, length)),
         counter |-> counter,
         out |-> Outcome("ok", counter)]

\* ListGenome.insert_te; genome[pos] raises IndexError when it is read
\* (the dictionary is not empty) with pos past the end
ListGenome_insert_te(genome, tes, counter, pos, length) ==
    IF tes # <<>> /\ pos >= Len(genome)
    THEN [genome |-> genome, tes |-> tes, counter |-> counter,
          out |-> Outcome("IndexError", 0)]
    ELSE LET scanned == ListGenome_insert_loop(genome, tes, 1, pos, length)
             id == counter
         IN  [genome |-> SliceAssign(scanned.genome, pos, pos, Repeat("A", length)),
              tes |-> Append(scanned.tes, Entry(id, pos, length)),
              counter |-> counter + 1,
              out |-> Outcome("ok", id)]

\* ListGenome.copy_te taking the next id before it looks te up
ListGenome_copy_te_takes_id(genome, tes, counter, te, offset) ==
    IF te \notin Keys(tes)
    THEN [genome |-> genome, tes |-> tes, counter |-> counter + 1,
          out |-> Outcome("None", 0)]
    ELSE ListGenome_insert_te(genome, tes, counter + 1,
                              (Lookup(tes, te)[2] + offset) % Len(genome),
                              Lookup(tes, te)[3])

\* ListGenome.copy_te
ListGenome_copy_te(genome, tes, counter, te, offset) ==
    IF te \notin Keys(tes)
    THEN [genome |-> genome, tes |-> tes, counter |-> counter,
          out |-> Outcome("None", 0)]
    ELSE LET pos == Lookup(tes, te)[2]
             length == Lookup(tes, te)[3]
         IN  IF Len(genome) = 0
             THEN [genome |-> genome, tes |-> tes, counter |-> counter,
                   out |-> Outcome("ZeroDivisionError", 0)]
             ELSE ListGenome_insert_te(genome, tes, counter,
                                       (pos + offset) % Len(genome), length)

\* ListGenome.active_tes
ListGenome_active_tes(tes) == [i \in 1..Len(tes) |-> tes[i][1]]

\* ListGenome.__len__
ListGenome_len(genome) == Len(genome)

\* ListGenome.__str__: ''.join(self.genome), as the sequence of its characters
ListGenome_str(genome) == genome

\* ---------------------------------------------------------- Link, DLList
\* A DLList is the record of its links' fields: val, prev and next are
\* functions on the links 0..m, link 0 is the dummy head, and links are
\* numbered in the order they are created.  None is the missing link.
None == -1
head == 0

Links(list) == DOMAIN list.val

\* insert_after without its last line, new_link.next.prev = new_link
insert_after_no_back_link(list, link, val) ==
    LET new_link == Cardinality(Links(list))
        nxt == list.next[link]
        linked == [val |-> [l \in Links(list) \cup {new_link} |->
                               IF l = new_link THEN val ELSE list.val[l]],
                   prev |-> [l \in Links(list) \cup {new_link} |->
                               IF l = new_link THEN link ELSE list.prev[l]],
                   next |-> [l \in Links(list) \cup {new_link} |->
                               IF l = new_link THEN nxt ELSE list.next[l]]]
    IN  [linked EXCEPT !.next[linked.prev[new_link]] = new_link]

\* insert_after putting the new link before link
insert_after_before(list, link, val) ==
    LET new_link == Cardinality(Links(list))
        prv == list.prev[link]
        linked == [val |-> [l \in Links(list) \cup {new_link} |->
                               IF l = new_link THEN val ELSE list.val[l]],
                   prev |-> [l \in Links(list) \cup {new_link} |->
                               IF l = new_link THEN prv ELSE list.prev[l]],
                   next |-> [l \in Links(list) \cup {new_link} |->
                               IF l = new_link THEN link ELSE list.next[l]]]
        fwd == [linked EXCEPT !.next[linked.prev[new_link]] = new_link]
    IN  [fwd EXCEPT !.prev[fwd.next[new_link]] = new_link]

\* insert_after(link, val); link = None raises AttributeError (link.next)
insert_after(list, link, val) ==
    LET new_link == Cardinality(Links(list))
        nxt == list.next[link]
        linked == [val |-> [l \in Links(list) \cup {new_link} |->
                               IF l = new_link THEN val ELSE list.val[l]],
                   prev |-> [l \in Links(list) \cup {new_link} |->
                               IF l = new_link THEN link ELSE list.prev[l]],
                   next |-> [l \in Links(list) \cup {new_link} |->
                               IF l = new_link THEN nxt ELSE list.next[l]]]
        \* new_link.prev.next = new_link
        fwd == [linked EXCEPT !.next[linked.prev[new_link]] = new_link]
        \* new_link.next.prev = new_link
    IN  [fwd EXCEPT !.prev[fwd.next[new_link]] = new_link]

\* DLList.__init__ after the first i values of seq have been appended
RECURSIVE DLList_init_loop(_, _)
DLList_init_loop(seq, i) ==
    IF i = 0
    THEN [val |-> [l \in {head} |-> "None"],
          prev |-> [l \in {head} |-> head],
          next |-> [l \in {head} |-> head]]
    ELSE LET list == DLList_init_loop(seq, i - 1)
         IN  insert_after(list, list.prev[head], seq[i])

\* DLList.__init__(seq)
DLList_init(seq) == DLList_init_loop(seq, Len(seq))

\* DLList.__iter__ from link on: the values up to the dummy head
RECURSIVE DLList_iter_from(_, _)
DLList_iter_from(list, link) ==
    IF link = head THEN <<>>
    ELSE <<list.val[link]>> \o DLList_iter_from(list, list.next[link])

\* DLList.__iter__
DLList_iter(list) == DLList_iter_from(list, list.next[head])

\* DLList.__len__ from link on
RECURSIVE DLList_len_from(_, _)
DLList_len_from(list, link) ==
    IF link = head THEN 0 ELSE 1 + DLList_len_from(list, list.next[link])

\* DLList.__len__
DLList_len(list) == DLList_len_from(list, list.next[head])

\* DLList.insert_n_elements; the result is the list and the status of the
\* call (insert_after raises AttributeError on the None link)
RECURSIVE DLList_insert_n_elements(_, _, _)
DLList_insert_n_elements(list, link_of_pos, length) ==
    IF length = 0 THEN [list |-> list, status |-> "ok"]
    ELSE IF link_of_pos = None THEN [list |-> list, status |-> "AttributeError"]
    ELSE LET inserted == insert_after(list, link_of_pos, "A")
         IN  DLList_insert_n_elements(inserted, inserted.next[link_of_pos], length - 1)

\* the loop of DLList.get_position
RECURSIVE DLList_get_position_loop(_, _, _)
DLList_get_position_loop(list, current, position) ==
    IF position > 1
    THEN DLList_get_position_loop(list, list.next[current], position - 1)
    ELSE current

\* DLList.get_position: the position-th link counting from 1, None below 1
DLList_get_position(list, position) ==
    IF position < 1 THEN None
    ELSE DLList_get_position_loop(list, list.next[head], position)

\* ------------------------------------------------------ LinkedListGenome
\* LinkedListGenome.__init__: self.genome = DLList(['-'] * n)
LinkedListGenome_init(n) == DLList_init(Repeat("-", n))

\* link = link.next, k times
RECURSIVE Advance(_, _, _)
Advance(list, link, k) ==
    IF k = 0 THEN link ELSE Advance(list, list.next[link], k - 1)

\* the second loop of LinkedListGenome.disable_te: link.val = 'x' on
\* how_long links in a row, the dummy head included when it is on the way
RECURSIVE LinkedListGenome_disable_loop(_, _, _)
LinkedListGenome_disable_loop(list, link, how_long) ==
    IF how_long = 0 THEN list
    ELSE LinkedListGenome_disable_loop([list EXCEPT !.val[link] = "x"],
                                       list.next[link], how_long - 1)

\* LinkedListGenome.disable_te; transposable_elements[te] raises KeyError
\* when te is no key
LinkedListGenome_disable_te(genome, tes, te) ==
    IF te \notin Keys(tes)
    THEN [genome |-> genome, tes |-> tes, status |-> "KeyError"]
    ELSE LET how_long == Lookup(tes, te)[3]
             info == <<Lookup(tes, te)[2], Lookup(tes, te)[3]>>
             link == Advance(genome, genome.next[head], info[1])
         IN  [genome |-> LinkedListGenome_disable_loop(genome, link, how_long),
              tes |-> Pop(tes, te),
              status |-> "ok"]

\* the loop of LinkedListGenome.insert_te over the dictionary's items, from
\* the i-th entry on; link_of_pos.val raises AttributeError on the None link
RECURSIVE LinkedListGenome_insert_loop(_, _, _, _, _, _)
LinkedListGenome_insert_loop(genome, tes, i, link_of_pos, pos, length) ==
    IF i > Len(tes)
    THEN [genome |-> genome, tes |-> tes, status |-> "ok"]
    ELSE IF link_of_pos = None
    THEN [genome |-> genome, tes |-> tes, status |-> "AttributeError"]
    ELSE LET id == tes[i][1]
             info == <<tes[i][2], tes[i][3]>>
         IN  IF genome.val[link_of_pos] = "A"
                /\ info[1] <= pos /\ pos <= info[1] + info[2]
             THEN LinkedListGenome_disable_te(genome, tes, id)
             ELSE IF info[1] > pos
                  THEN LinkedListGenome_insert_loop(
                           genome,
                           [tes EXCEPT ![i] = Entry(id, info[1] + length, info[2])],
                           i + 1, link_of_pos, pos, length)
                  ELSE LinkedListGenome_insert_loop(genome, tes, i + 1,
                                                    link_of_pos, pos, length)

\* LinkedListGenome.insert_te
LinkedListGenome_insert_te(genome, tes, counter, pos, length) ==
    LET link_of_pos == DLList_get_position(genome, pos)
        scanned == LinkedListGenome_insert_loop(genome, tes, 1, link_of_pos,
                                                pos, length)
        spliced == DLList_insert_n_elements(scanned.genome, link_of_pos, length)
        id == counter
    IN  IF scanned.status # "ok"
        THEN [genome |-> genome, tes |-> tes, counter |-> counter,
              out |-> Outcome(scanned.status, 0)]
        ELSE IF spliced.status # "ok"
        THEN [genome |-> genome, tes |-> tes, counter |-> counter,
              out |-> Outcome(spliced.status, 0)]
        ELSE [genome |-> spliced.list,
              tes |-> Append(scanned.tes, Entry(id, pos, length)),
              counter |-> counter + 1,
              out |-> Outcome("ok", id)]

\* LinkedListGenome.copy_te
LinkedListGenome_copy_te(genome, tes, counter, te, offset) ==
    IF te \notin Keys(tes)
    THEN [genome |-> genome, tes |-> tes, counter |-> counter,
          out |-> Outcome("None", 0)]
    ELSE LET pos == Lookup(tes, te)[2]
             length == Lookup(tes, te)[3]
         IN  IF DLList_len(genome) = 0
             THEN [genome |-> genome, tes |-> tes, counter |-> counter,
                   out |-> Outcome("ZeroDivisionError", 0)]
             ELSE LinkedListGenome_insert_te(genome, tes, counter,
                                             (pos + offset) % DLList_len(genome),
                                             length)

\* LinkedListGenome.active_tes
LinkedListGenome_active_tes(tes) == [i \in 1..Len(tes) |-> tes[i][1]]

\* LinkedListGenome.__len__
LinkedListGenome_len(genome) == DLList_len(genome)

\* LinkedListGenome.__str__: ''.join(self.genome), as the sequence of its
\* characters
LinkedListGenome_str(genome) == DLList_iter(genome)

\* ------------------------------------------------------------- dispatch
\* the methods of the instance's class
Genome_init(cls, n) ==
    IF cls = "ListGenome" THEN ListGenome_init(n) ELSE LinkedListGenome_init(n)

Genome_insert_te(cls, genome, tes, counter, pos, length) ==
    IF cls = "ListGenome"
    THEN ListGenome_insert_te(genome, tes, counter, pos, length)
    ELSE LinkedListGenome_insert_te(genome, tes, counter, pos, length)

Genome_copy_te(cls, genome, tes, counter, te, offset) ==
    IF cls = "ListGenome"
    THEN ListGenome_copy_te(genome, tes, counter, te, offset)
    ELSE LinkedListGenome_copy_te(genome, tes, counter, te, offset)

Genome_disable_te(cls, genome, tes, te) ==
    IF cls = "ListGenome"
    THEN ListGenome_disable_te(genome, tes, te)
    ELSE LinkedListGenome_disable_te(genome, tes, te)

Genome_len(cls, genome) ==
    IF cls = "ListGenome" THEN ListGenome_len(genome)
    ELSE LinkedListGenome_len(genome)

Genome_str(cls, genome) ==
    IF cls = "ListGenome" THEN ListGenome_str(genome)
    ELSE LinkedListGenome_str(genome)

\* set(active_tes())
Genome_active_tes(cls, tes) ==
    LET ids == IF cls = "ListGenome" THEN ListGenome_active_tes(tes)
               ELSE LinkedListGenome_active_tes(tes)
    IN  {ids[i] : i \in 1..Len(ids)}

\* len(g), str(g), g.active_tes() of the instance g = genomes[self]
len(self) == Genome_len(genomes[self].cls, genomes[self].genome)
str(self) == Genome_str(genomes[self].cls, genomes[self].genome)
active_tes(self) ==
    Genome_active_tes(genomes[self].cls, transposable_elements[genomes[self].cls])

\* the insertion position copy_te computes, -1 when it computes none
insertion_position(tes, te, offset, L) ==
    IF te \in Keys(tes) /\ L > 0 THEN (Lookup(tes, te)[2] + offset) % L ELSE -1

\* ---------------------------------------------------------- the program
Call(op, self, te, pos, length, out) ==
    [op |-> op, self |-> self, te |-> te, pos |-> pos, length |-> length,
     status |-> out.status, value |-> out.value]

\* the module is loaded: the class attributes are set, no genome is built
Init ==
    /\ transposable_elements = [c \in Classes |-> <<>>]
    /\ tes_counter = [c \in Classes |-> 1]
    /\ genomes = <<>>
    /\ history = <<>>
    /\ last = Call("load", 0, 0, -1, 0, Outcome("ok", 0))

\* g = cls(n)
New(cls, n) ==
    /\ Len(genomes) < MaxGenomes
    /\ genomes' = Append(genomes, [cls |-> cls, genome |-> Genome_init(cls, n)])
    /\ history' = Append(history, [n |-> n, inserted |-> 0, issued |-> {}])
    /\ last' = Call("__init__", Len(genomes) + 1, 0, -1, 0, Outcome("ok", 0))
    /\ UNCHANGED <<transposable_elements, tes_counter>>

\* the number of ids issued so far, over both classes
Issued == (tes_counter["ListGenome"] - 1) + (tes_counter["LinkedListGenome"] - 1)

\* the state after a call on genomes[self] that ended as the record r
Returned(self, r, call) ==
    LET cls == genomes[self].cls
        done == r.out.status = "ok"
    IN  /\ genomes' = [genomes EXCEPT ![self].genome = r.genome]
        /\ transposable_elements' = [transposable_elements EXCEPT ![cls] = r.tes]
        /\ tes_counter' = [tes_counter EXCEPT ![cls] = r.counter]
        /\ history' = [history EXCEPT
               ![self].inserted = IF done THEN @ + call.length ELSE @,
               ![self].issued = IF done THEN @ \cup {r.out.value} ELSE @]
        /\ last' = call

\* the result of a call on genomes[self]
insert_te_result(self, pos, length) ==
    Genome_insert_te(genomes[self].cls, genomes[self].genome,
                     transposable_elements[genomes[self].cls],
                     tes_counter[genomes[self].cls], pos, length)

copy_te_result(self, te, offset) ==
    Genome_copy_te(genomes[self].cls, genomes[self].genome,
                   transposable_elements[genomes[self].cls],
                   tes_counter[genomes[self].cls], te, offset)

\* the TE copy_te(te, offset) on genomes[self] inserts: its position, -1 when
\* none is computed, and its length
copy_te_pos(self, te, offset) ==
    insertion_position(transposable_elements[genomes[self].cls], te, offset, len(self))

copy_te_length(self, te) ==
    IF te \in Keys(transposable_elements[genomes[self].cls])
    THEN Lookup(transposable_elements[genomes[self].cls], te)[3] ELSE 0

disable_te_result(self, te) ==
    LET r == Genome_disable_te(genomes[self].cls, genomes[self].genome,
                               transposable_elements[genomes[self].cls], te)
    IN  [genome |-> r.genome, tes |-> r.tes,
         counter |-> tes_counter[genomes[self].cls],
         out |-> Outcome(IF r.status = "ok" THEN "returned" ELSE r.status, 0)]

\* genomes[self].insert_te(pos, length), pos in [0, len)
insert_te(self, pos, length) ==
    /\ Issued < MaxIds
    /\ pos < len(self)
    /\ Returned(self, insert_te_result(self, pos, length),
                Call("insert_te", self, 0, pos, length,
                     insert_te_result(self, pos, length).out))

\* genomes[self].copy_te(te, offset)
copy_te(self, te, offset) ==
    /\ Issued < MaxIds
    /\ te <= tes_counter[genomes[self].cls]
    /\ Returned(self, copy_te_result(self, te, offset),
                Call("copy_te", self, te, copy_te_pos(self, te, offset),
                     copy_te_length(self, te), copy_te_result(self, te, offset).out))

\* genomes[self].disable_te(te)
disable_te(self, te) ==
    /\ te <= tes_counter[genomes[self].cls]
    /\ Returned(self, disable_te_result(self, te),
                Call("disable_te", self, te, -1, 0, disable_te_result(self, te).out))

Next ==
    \/ \E cls \in Classes, n \in 0..MaxN : New(cls, n)
    \/ \E self \in 1..Len(genomes), pos \in 0..(MaxN + MaxIds * MaxLength),
          length \in 0..MaxLength : insert_te(self, pos, length)
    \/ \E self \in 1..Len(genomes), te \in 1..(MaxIds + 1),
          offset \in (-MaxOffset)..MaxOffset : copy_te(self, te, offset)
    \/ \E self \in 1..Len(genomes), te \in 1..(MaxIds + 1) : disable_te(self, te)

Spec == Init /\ [][Next]_vars

\* ------------------------------------------------- the two kinds in step
\* One fresh ListGenome and one fresh LinkedListGenome of the same size,
\* built right after the module is loaded, receive the same calls.
InitEq ==
    /\ transposable_elements = [c \in Classes |-> <<>>]
    /\ tes_counter = [c \in Classes |-> 1]
    /\ \E n \in 0..MaxN :
          /\ genomes = <<[cls |-> "ListGenome", genome |-> Genome_init("ListGenome", n)],
                         [cls |-> "LinkedListGenome",
                          genome |-> Genome_init("LinkedListGenome", n)]>>
          /\ history = <<[n |-> n, inserted |-> 0, issued |-> {}],
                         [n |-> n, inserted |-> 0, issued |-> {}]>>
    /\ last = Call("__init__", 2, 0, -1, 0, Outcome("ok", 0))

\* the state after the same call on genomes[1] and genomes[2] ended as the
\* records r1 and r2; last is the call on genomes[2]
ReturnedBoth(r1, r2, length1, length2, call) ==
    /\ genomes' = [genomes EXCEPT ![1].genome = r1.genome, ![2].genome = r2.genome]
    /\ transposable_elements' =
           [transposable_elements EXCEPT ![genomes[1].cls] = r1.tes,
                                         ![genomes[2].cls] = r2.tes]
    /\ tes_counter' = [tes_counter EXCEPT ![genomes[1].cls] = r1.counter,
                                          ![genomes[2].cls] = r2.counter]
    /\ history' = [history EXCEPT
           ![1].inserted = IF r1.out.status = "ok" THEN @ + length1 ELSE @,
           ![1].issued = IF r1.out.status = "ok" THEN @ \cup {r1.out.value} ELSE @,
           ![2].inserted = IF r2.out.status = "ok" THEN @ + length2 ELSE @,
           ![2].issued = IF r2.out.status = "ok" THEN @ \cup {r2.out.value} ELSE @]
    /\ last' = call

\* no id beyond MaxIds is issued by either class
BothInBudget == \A c \in Classes : tes_counter[c] <= MaxIds

both_insert_te(pos, length) ==
    /\ BothInBudget
    /\ pos < len(1) /\ pos < len(2)
    /\ ReturnedBoth(insert_te_result(1, pos, length), insert_te_result(2, pos, length),
                    length, length,
                    Call("insert_te", 2, 0, pos, length,
                         insert_te_result(2, pos, length).out))

both_copy_te(te, offset) ==
    /\ BothInBudget
    /\ \E c \in Classes : te <= tes_counter[c]
    /\ ReturnedBoth(copy_te_result(1, te, offset), copy_te_result(2, te, offset),
                    copy_te_length(1, te), copy_te_length(2, te),
                    Call("copy_te", 2, te, copy_te_pos(2, te, offset),
                         copy_te_length(2, te), copy_te_result(2, te, offset).out))

both_disable_te(te) ==
    /\ \E c \in Classes : te <= tes_counter[c]
    /\ ReturnedBoth(disable_te_result(1, te), disable_te_result(2, te), 0, 0,
                    Call("disable_te", 2, te, -1, 0, disable_te_result(2, te).out))

NextEq ==
    \/ \E pos \in 0..(MaxN + MaxIds * MaxLength), length \in 0..MaxLength :
          both_insert_te(pos, length)
    \/ \E te \in 1..(MaxIds + 1), offset \in (-MaxOffset)..MaxOffset :
          both_copy_te(te, offset)
    \/ \E te \in 1..(MaxIds + 1) : both_disable_te(te)

SpecEq == InitEq /\ [][NextEq]_vars

\* ------------------------------------------------------- a single genome
\* One genome of either class is built after the module is loaded and
\* receives any calls.
NextSingle ==
    \/ \E cls \in Classes, n \in 0..MaxN : Len(genomes) = 0 /\ New(cls, n)
    \/ \E pos \in 0..(MaxN + MaxIds * MaxLength), length \in 0..MaxLength :
          Len(genomes) = 1 /\ insert_te(1, pos, length)
    \/ \E te \in 1..(MaxIds + 1), offset \in (-MaxOffset)..MaxOffset :
          Len(genomes) = 1 /\ copy_te(1, te, offset)
    \/ \E te \in 1..(MaxIds + 1) : Len(genomes) = 1 /\ disable_te(1, te)

SpecSingle == Init /\ [][NextSingle]_vars

\* ---------------------------------------------- construction of any size
\* One genome built with any integer size, then any calls on it.  The
\* constructors take any integer: ['-'] * n is the empty list for n < 0.
NextAnySize ==
    \/ \E cls \in Classes, n \in (-MaxNegative)..MaxN :
          Len(genomes) = 0 /\ New(cls, n)
    \/ \E self \in 1..Len(genomes), pos \in 0..(MaxN + MaxIds * MaxLength),
          length \in 0..MaxLength : insert_te(self, pos, length)
    \/ \E self \in 1..Len(genomes), te \in 1..(MaxIds + 1),
          offset \in (-MaxOffset)..MaxOffset : copy_te(self, te, offset)
    \/ \E self \in 1..Len(genomes), te \in 1..(MaxIds + 1) : disable_te(self, te)

SpecAnySize == Init /\ [][NextAnySize]_vars

\* ------------------------------------------------- the scenario of size 5
\* One fresh genome of size 5, built right after the module is loaded, then
\* any calls on it; the offsets reach MaxOffset + 1.
InitScenario ==
    /\ transposable_elements = [c \in Classes |-> <<>>]
    /\ tes_counter = [c \in Classes |-> 1]
    /\ \E cls \in Classes :
          genomes = <<[cls |-> cls, genome |-> Genome_init(cls, 5)]>>
    /\ history = <<[n |-> 5, inserted |-> 0, issued |-> {}]>>
    /\ last = Call("__init__", 1, 0, -1, 0, Outcome("ok", 0))

NextScenario ==
    \/ \E pos \in 0..(5 + MaxIds * MaxLength), length \in 0..MaxLength :
          insert_te(1, pos, length)
    \/ \E te \in 1..(MaxIds + 1), offset \in (-MaxOffset)..(MaxOffset + 1) :
          copy_te(1, te, offset)
    \/ \E te \in 1..(MaxIds + 1) : disable_te(1, te)

SpecScenario == InitScenario /\ [][NextScenario]_vars

\* ------------------------------------------------------ a DLList alone
\* One DLList is built from a sequence and receives insert_after and
\* insert_n_elements calls on its links.  The list is genomes[1].genome, as
\* it is for a LinkedListGenome; last.pos is the link the call was given.
Values == {"-", "A", "x"}

Seqs == UNION {[1..n -> Values] : n \in 0..MaxSeq}

\* DLList(seq)
new_DLList(seq) ==
    /\ Len(genomes) = 0
    /\ genomes' = <<[cls |-> "DLList", genome |-> DLList_init(seq)]>>
    /\ history' = <<[n |-> Len(seq), inserted |-> 0, issued |-> {}]>>
    /\ last' = Call("DLList", 1, 0, -1, 0, Outcome("ok", 0))
    /\ UNCHANGED <<transposable_elements, tes_counter>>

\* insert_after(link, val) on a link of the list
call_insert_after(link, val) ==
    /\ Len(genomes) = 1
    /\ link \in Links(genomes[1].genome)
    /\ DLList_len(genomes[1].genome) < MaxLinks
    /\ genomes' = [genomes EXCEPT ![1].genome = insert_after(@, link, val)]
    /\ history' = [history EXCEPT ![1].inserted = @ + 1]
    /\ last' = Call("insert_after", 1, 0, link, 1, Outcome("ok", 0))
    /\ UNCHANGED <<transposable_elements, tes_counter>>

\* list.insert_n_elements(link_of_pos, length) on a link of the list
call_insert_n_elements(link_of_pos, length) ==
    /\ Len(genomes) = 1
    /\ link_of_pos \in Links(genomes[1].genome)
    /\ DLList_len(genomes[1].genome) + length <= MaxLinks
    /\ genomes' = [genomes EXCEPT ![1].genome =
                       DLList_insert_n_elements(@, link_of_pos, length).list]
    /\ history' = [history EXCEPT ![1].inserted = @ + length]
    /\ last' = Call("insert_n_elements", 1, 0, link_of_pos, length,
                    Outcome(DLList_insert_n_elements(genomes[1].genome,
                                                     link_of_pos, length).status, 0))
    /\ UNCHANGED <<transposable_elements, tes_counter>>

NextDLList ==
    \/ \E seq \in Seqs : new_DLList(seq)
    \/ \E link \in 0..MaxLinks, val \in Values : call_insert_after(link, val)
    \/ \E link_of_pos \in 0..MaxLinks, length \in 0..MaxLength :
          call_insert_n_elements(link_of_pos, length)

SpecDLList == Init /\ [][NextDLList]_vars

\* ============================================================ properties
Genomes == 1..Len(genomes)

\* the two instances are one ListGenome and one LinkedListGenome
OneOfEach == Len(genomes) = 2 /\ genomes[1].cls # genomes[2].cls

\* C1: representation equivalence.  After every step of the same calls on a
\* fresh ListGenome and a fresh LinkedListGenome of the same size, the two
\* renderings are equal and the two sets of active ids are equal.
C1_RepresentationEquivalence ==
    OneOfEach => /\ str(1) = str(2)
                 /\ active_tes(1) = active_tes(2)

\* C2: length accounting.  The length of every genome is the size it was
\* built with plus the lengths of the TEs inserted into it by the calls that
\* returned an id.
C2_LengthAccounting ==
    \A self \in Genomes : len(self) = history[self].n + history[self].inserted

\* the dictionary genomes[self] reads, before and after the step
TEs(self) == transposable_elements[genomes[self].cls]
TEsAfter(self) == transposable_elements'[genomes[self].cls]

\* set(genomes[self].active_tes()) after the step
active_tes_after(self) ==
    Genome_active_tes(genomes'[self].cls, transposable_elements'[genomes'[self].cls])

\* the last call was an insert_te or a copy_te that returned an id
ReturnedId(call) == call.op \in {"insert_te", "copy_te"} /\ call.status = "ok"

\* C3: ids of an instance are unique and increasing.  The id a call returns
\* is greater than every id the instance returned before, and an id it
\* returned that is no longer active never becomes active again.
C3_IdsIncrease ==
    [][\A self \in Genomes :
          /\ (ReturnedId(last') /\ last'.self = self) =>
                 \A id \in history[self].issued : last'.value > id
          /\ \A id \in history[self].issued :
                 id \notin active_tes(self) => id \notin active_tes(self)']_vars

\* an instance returned two ids, the first of which was disabled before the
\* second was issued by the last call
C3_Witness ==
    /\ ReturnedId(last)
    /\ \E id \in history[last.self].issued :
          id < last.value /\ id \notin active_tes(last.self)

\* the index after insert_te(pos, length) of the symbol that was at index i
Moved(i, pos, length) == IF i < pos THEN i ELSE i + length

\* C4: collision deactivation.  When insert_te(pos, length) is called with
\* pos in the recorded range of an active TE t, t is not active after the
\* call and every symbol of its range is rendered 'x', still in the sequence.
C4_CollisionDeactivation ==
    [][\A self \in Genomes, pos \in 0..(MaxN + MaxIds * MaxLength),
          length \in 0..MaxLength :
          insert_te(self, pos, length) =>
              \A k \in 1..Len(TEs(self)) :
                  LET t == TEs(self)[k]
                  IN  (t[2] <= pos /\ pos < t[2] + t[3]) =>
                          /\ t[1] \notin active_tes(self)'
                          /\ \A i \in t[2]..(t[2] + t[3] - 1) :
                                /\ Moved(i, pos, length) < len(self)'
                                /\ str(self)'[Moved(i, pos, length) + 1] = "x"]_vars

\* C5: absent copy.  copy_te of an id that is not active returns None and
\* changes neither the sequence, nor the active TEs, nor the id counter.
C5_AbsentCopy ==
    [][(last'.op = "copy_te" /\ last'.te \notin active_tes(last'.self)) =>
          /\ last'.status = "None"
          /\ UNCHANGED <<genomes, transposable_elements, tes_counter>>]_vars

\* a copy of an id the instance issued and that was disabled since returned
\* None while another TE was active
C5_Witness ==
    /\ last.op = "copy_te" /\ last.status = "None"
    /\ last.te \in history[last.self].issued
    /\ active_tes(last.self) # {}

\* the last entry of the dictionary an instance of cls reads
Newest(tes) == tes[Len(tes)]

\* C6: wraparound.  copy_te(te, offset) of an active te on a genome of length
\* L returns an id and records the new TE at (start(te) + offset) mod L, a
\* position in [0, L), with the length of te.
C6_Wraparound ==
    [][\A self \in Genomes, te \in 1..(MaxIds + 1), offset \in (-MaxOffset)..MaxOffset :
          (copy_te(self, te, offset) /\ te \in active_tes(self)) =>
              LET tes == TEs(self)
                  L == len(self)
              IN  /\ last'.status = "ok"
                  /\ L > 0
                  /\ Newest(TEsAfter(self)) =
                         Entry(last'.value, (Lookup(tes, te)[2] + offset) % L,
                               Lookup(tes, te)[3])
                  /\ Newest(TEsAfter(self))[2] \in 0..(L - 1)]_vars


\* C7: disable_te of an id that is not active is a silent no-op: it returns
\* without an error and changes neither the sequence nor the active TEs.
C7_DisableInactiveNoop ==
    [][\A self \in Genomes, te \in 1..(MaxIds + 1) :
          (disable_te(self, te) /\ te \notin active_tes(self)) =>
              /\ last'.status = "returned"
              /\ UNCHANGED <<genomes, transposable_elements>>]_vars

\* C8: instance isolation.  A genome that was just built has no active TEs,
\* and a call on one instance leaves the active TEs and their recorded
\* positions as they were for every other instance of its class.
C8_InstanceIsolation ==
    [][/\ last'.op = "__init__" => active_tes_after(last'.self) = {}
       /\ \A self \in Genomes, other \in Genomes :
             (/\ last'.op \in {"insert_te", "copy_te", "disable_te"}
              /\ last'.self = self /\ other # self
              /\ genomes[other].cls = genomes[self].cls) =>
                 TEsAfter(other) = TEs(other)]_vars

\* C9: insert_te is total on its domain.  Every insert_te(pos, length) with
\* 0 <= pos < len and length >= 0 returns an id.
C9_InsertTotal ==
    last.op = "insert_te" => last.status = "ok" /\ last.value >= 1

\* C10: the source survives its copy.  After copy_te(te, offset) of an active
\* te, te is still active with the length it had, its start is the one it had
\* or, when the insertion position is before it, that start advanced by the
\* length of te, and the symbols of its recorded range are 'A'.
C10_SourcePreserved ==
    [][\A self \in Genomes, te \in 1..(MaxIds + 1), offset \in (-MaxOffset)..MaxOffset :
          (copy_te(self, te, offset) /\ te \in active_tes(self)) =>
              LET start == Lookup(TEs(self), te)[2]
                  length == Lookup(TEs(self), te)[3]
                  L == len(self)
              IN  /\ te \in active_tes(self)'
                  /\ Lookup(TEsAfter(self), te)[3] = length
                  /\ \/ Lookup(TEsAfter(self), te)[2] = start
                     \/ /\ L > 0 /\ (start + offset) % L < start
                        /\ Lookup(TEsAfter(self), te)[2] = start + length
                  /\ \A i \in 0..(length - 1) :
                        /\ Lookup(TEsAfter(self), te)[2] + i < len(self)'
                        /\ str(self)'[Lookup(TEsAfter(self), te)[2] + i + 1] = "A"]_vars

\* C11: construction with a negative size fails.  No genome is built from a
\* size n < 0: the constructor ends in an InvalidSize error; a genome built
\* with n = 0 has length 0 and the empty rendering.
C11_NegativeSizeFails ==
    last.op = "__init__" =>
        /\ history[last.self].n < 0 => last.status = "InvalidSize"
        /\ history[last.self].n >= 0 => last.status = "ok"
        /\ history[last.self].n = 0 => len(last.self) = 0 /\ str(last.self) = <<>>
        /\ \A self \in Genomes : history[self].n >= 0

\* C12: effect and frame of disable_te.  After disable_te(te) of an active te
\* recorded as (start, length) the call has returned, the symbols at the
\* indices [start, start + length) are 'x', every other symbol and the length
\* are as before, te is not active, and every other active TE has the id,
\* start and length it had.
C12_DisableFrame ==
    [][\A self \in Genomes :
          (/\ last'.op = "disable_te" /\ last'.self = self
           /\ last'.te \in active_tes(self)) =>
              LET start == Lookup(TEs(self), last'.te)[2]
                  length == Lookup(TEs(self), last'.te)[3]
              IN  /\ last'.status = "returned"
                  /\ start + length <= len(self)
                  /\ len(self)' = len(self)
                  /\ \A i \in 0..(len(self) - 1) :
                        str(self)'[i + 1] =
                            IF start <= i /\ i < start + length
                            THEN "x" ELSE str(self)[i + 1]
                  /\ active_tes(self)' = active_tes(self) \ {last'.te}
                  /\ TEsAfter(self) = Pop(TEs(self), last'.te)]_vars

\* the genome is as it was built and its class has issued no id
Fresh(self) == tes_counter[genomes[self].cls] = 1 /\ history[self].issued = {}

\* the last call was the first of the scenario: insert_te(0, 2) returned id 1
AfterFirstCall ==
    /\ last.op = "insert_te" /\ last.pos = 0 /\ last.length = 2
    /\ last.status = "ok" /\ last.value = 1

\* C13: the scenario.  On a fresh genome of size 5, insert_te(0, 2) returns
\* id 1 and the length becomes 7; then copy_te(1, 3) inserts at position 3
\* and returns id 2, after which the active ids are {1, 2} and the length
\* is 12.
C13_ScenarioLength12 ==
    [][/\ (Fresh(1) /\ insert_te(1, 0, 2)) =>
             /\ last'.status = "ok" /\ last'.value = 1
             /\ len(1)' = 7
       /\ (AfterFirstCall /\ copy_te(1, 1, 3)) =>
             /\ last'.pos = 3
             /\ last'.status = "ok" /\ last'.value = 2
             /\ active_tes(1)' = {1, 2}
             /\ len(1)' = 12]_vars

\* the symbols at the indices [start, start + length) of genomes[self] exist
\* and are all sym
RangeIs(self, start, length, sym) ==
    \A i \in start..(start + length - 1) :
        i < len(self) /\ str(self)[i + 1] = sym

\* C14: TE record invariant.  On a single genome, every active id recorded
\* as (start, length) has the symbol 'A' at every index of
\* [start, start + length) of the current sequence.
C14_RecordsTrackA ==
    \A self \in Genomes :
        \A k \in 1..Len(TEs(self)) :
            RangeIs(self, TEs(self)[k][2], TEs(self)[k][3], "A")

\* the recorded ranges of the entries a and b share an index
Overlap(a, b) == a[2] < b[2] + b[3] /\ b[2] < a[2] + a[3]

\* C15: non-overlap invariant.  Any two different active TEs of non-zero
\* length have disjoint recorded ranges [start, start + length); so no two of
\* them are recorded at the same start.
C15_NoOverlap ==
    \A self \in Genomes :
        \A j, k \in 1..Len(TEs(self)) :
            (j # k /\ TEs(self)[j][3] > 0 /\ TEs(self)[k][3] > 0) =>
                ~Overlap(TEs(self)[j], TEs(self)[k])

\* C16: position-shift rule.  After insert_te(pos, length) has returned,
\* every TE that was active before the call and still is has its recorded
\* start advanced by length when that start was greater than pos, and the
\* start it had otherwise.
C16_PositionShift ==
    [][\A self \in Genomes :
          (last'.op = "insert_te" /\ last'.status = "ok" /\ last'.self = self) =>
              \A k \in 1..Len(TEs(self)) :
                  LET t == TEs(self)[k]
                  IN  t[1] \in Keys(TEsAfter(self)) =>
                          Lookup(TEsAfter(self), t[1])[2] =
                              IF t[2] > last'.pos THEN t[2] + last'.length ELSE t[2]]_vars

\* C17: a call disables at most one TE.  After an insert_te or a copy_te the
\* active ids are those of before the call, less at most one of them, and,
\* when the call returned an id, that id, which was not active before.
C17_AtMostOneDisabled ==
    [][\A self \in Genomes :
          (last'.op \in {"insert_te", "copy_te"} /\ last'.self = self) =>
              LET before == active_tes(self)
                  after == active_tes_after(self)
                  issued == IF last'.status = "ok" THEN {last'.value} ELSE {}
              IN  /\ issued \cap before = {}
                  /\ issued \subseteq after
                  /\ after \ issued \subseteq before
                  /\ Cardinality(before \ after) <= 1]_vars

\* a call returned an id at a position where it collided: the symbol it
\* pushed forward is 'x', an older TE of the instance is no longer active and
\* another one still is
C17_Witness ==
    /\ ReturnedId(last)
    /\ last.pos + last.length < len(last.self)
    /\ str(last.self)[last.pos + last.length + 1] = "x"
    /\ \E id \in history[last.self].issued : id \notin active_tes(last.self)
    /\ \E id \in history[last.self].issued :
          id # last.value /\ id \in active_tes(last.self)

\* the links of the list in the order __iter__ visits them
RECURSIVE DLList_links_from(_, _)
DLList_links_from(list, link) ==
    IF link = head THEN <<>>
    ELSE <<link>> \o DLList_links_from(list, list.next[link])

\* the number of elements __iter__ yields up to and including link, 0 for
\* the dummy head
IndexOfLink(list, link) ==
    IF link = head THEN 0
    ELSE CHOOSE k \in 1..Len(DLList_links_from(list, list.next[head])) :
             DLList_links_from(list, list.next[head])[k] = link

\* C18: circular list order.  Iterating DLList(seq) yields the elements of
\* seq in order and len() is their number; after insert_after(ref, v)
\* iteration yields v right after the element of ref (first when ref is the
\* dummy head), the other elements in the order they had, and len() is
\* larger by one.
C18_CircularOrder ==
    [][/\ \A seq \in Seqs :
             (last'.op = "DLList" /\ new_DLList(seq)) =>
                 /\ DLList_iter(genomes'[1].genome) = seq
                 /\ DLList_len(genomes'[1].genome) = Len(seq)
       /\ \A ref \in 0..MaxLinks, v \in Values :
             (last'.op = "insert_after" /\ last'.pos = ref
                  /\ call_insert_after(ref, v)) =>
                 LET before == DLList_iter(genomes[1].genome)
                     k == IndexOfLink(genomes[1].genome, ref)
                 IN  /\ DLList_iter(genomes'[1].genome) =
                            SubSeq(before, 1, k) \o <<v>>
                                \o SubSeq(before, k + 1, Len(before))
                     /\ DLList_len(genomes'[1].genome) =
                            DLList_len(genomes[1].genome) + 1]_vars

\* insert_after was called on the last element of a list of two or more
C18_Witness ==
    /\ last.op = "insert_after" /\ last.pos # head
    /\ DLList_len(genomes[1].genome) >= 3
    /\ genomes[1].genome.next[genomes[1].genome.next[last.pos]] = head

\* C20: linked-list well-formedness.  Every link m of the list, the dummy
\* head included, has m.next.prev = m and m.prev.next = m, and following
\* next from the head comes back to the head after len() + 1 steps and not
\* before.
C20_WellFormed ==
    (Len(genomes) = 1 /\ genomes[1].cls = "DLList") =>
        LET list == genomes[1].genome
            reachable == {head} \cup
                {DLList_links_from(list, list.next[head])[k] :
                     k \in 1..Len(DLList_links_from(list, list.next[head]))}
        IN  /\ \A m \in reachable :
                  /\ list.prev[list.next[m]] = m
                  /\ list.next[list.prev[m]] = m
            /\ Advance(list, head, DLList_len(list) + 1) = head
            /\ \A k \in 1..DLList_len(list) : Advance(list, head, k) # head

\* insert_n_elements put two links between two elements of the list
C20_Witness ==
    /\ last.op = "insert_n_elements" /\ last.length = 2 /\ last.pos # head
    /\ DLList_len(genomes[1].genome) = 4
    /\ genomes[1].genome.prev[head] # Advance(genomes[1].genome, last.pos, 2)

\* the number of indices of the sequence s that hold sym
Count(s, sym) == Cardinality({i \in 1..Len(s) : s[i] = sym})

\* the sum of the lengths recorded in the first k entries of the dictionary
RECURSIVE SumLengths(_, _)
SumLengths(tes, k) == IF k = 0 THEN 0 ELSE tes[k][3] + SumLengths(tes, k - 1)

\* C19: symbol counts.  On a single genome built with size n, the number of
\* '-' symbols is n and the number of 'A' symbols is the sum of the lengths
\* of the active TEs.
C19_SymbolCounts ==
    \A self \in Genomes :
        /\ Count(str(self), "-") = history[self].n
        /\ Count(str(self), "A") = SumLengths(TEs(self), Len(TEs(self)))

====
